---- MODULE Spec2Model ----
(***************************************************************************)
(* Model of the Metro CDMX ridership dashboard (src/main.py).              *)
(*                                                                         *)
(* A Python str is a sequence of characters, each written as a TLA+ string *)
(* (a letter with a diacritic is written as the letter followed by its     *)
(* mark: "e'" is e-acute, "n~" is n-tilde).  A DataFrame is a sequence of  *)
(* records, one per row, in row order.  A cell that can be missing holds   *)
(* <<v>> for the value v and NaN = <<>> when the value is missing.         *)
(***************************************************************************)
EXTENDS Integers, Sequences, FiniteSets, TLC

(***************************************************************************)
(* Characters and strings                                                  *)
(***************************************************************************)

\* The sequence f as an explicit tuple: a function constructor is evaluated
\* anew at every application, a tuple is not.
Tuple(f) == f \o <<>>

\* The characters of the model, in code point order.
Alphabet ==
    << " ", ",", "-", ".", "/",
       "0", "1", "2", "3", "4", "5", "6", "7", "8", "9",
       "A", "B", "C", "D", "E", "F", "G", "H", "I", "J", "K", "L", "M",
       "N", "O", "P", "Q", "R", "S", "T", "U", "V", "W", "X", "Y", "Z",
       "a", "b", "c", "d", "e", "f", "g", "h", "i", "j", "k", "l", "m",
       "n", "o", "p", "q", "r", "s", "t", "u", "v", "w", "x", "y", "z",
       "A'", "E'", "I'", "N~", "O'", "U'", "a'", "e'", "i'", "n~", "o'", "u'" >>

\* Position of a character in code point order.
OrdTable ==
    [c \in {Alphabet[i] : i \in 1..Len(Alphabet)} |->
        CHOOSE i \in 1..Len(Alphabet) : Alphabet[i] = c]

Ord(c) == OrdTable[c]

\* Python's str comparison: lexicographic by code point, a proper prefix first.
RECURSIVE StrLess(_, _)
StrLess(a, b) ==
    IF b = <<>> THEN FALSE
    ELSE IF a = <<>> THEN TRUE
    ELSE IF Head(a) = Head(b) THEN StrLess(Tail(a), Tail(b))
    ELSE Ord(Head(a)) < Ord(Head(b))

StrLeq(a, b) == a = b \/ StrLess(a, b)

UpperChars ==
    << "A", "B", "C", "D", "E", "F", "G", "H", "I", "J", "K", "L", "M",
       "N", "O", "P", "Q", "R", "S", "T", "U", "V", "W", "X", "Y", "Z",
       "A'", "E'", "I'", "N~", "O'", "U'" >>

LowerChars ==
    << "a", "b", "c", "d", "e", "f", "g", "h", "i", "j", "k", "l", "m",
       "n", "o", "p", "q", "r", "s", "t", "u", "v", "w", "x", "y", "z",
       "a'", "e'", "i'", "n~", "o'", "u'" >>

\* The lower case of each character that has one.
LowerTable ==
    [c \in {UpperChars[k] : k \in 1..Len(UpperChars)} |->
        LowerChars[CHOOSE k \in 1..Len(UpperChars) : UpperChars[k] = c]]

\* str.lower(), character by character.
lower(s) ==
    Tuple([i \in 1..Len(s) |->
        IF s[i] \in DOMAIN LowerTable THEN LowerTable[s[i]] ELSE s[i]])

IsSpace(c) == c = " "

\* str.lstrip(): drops the leading characters that satisfy the test.
RECURSIVE LStripSpace(_)
LStripSpace(s) ==
    IF s # <<>> /\ IsSpace(Head(s)) THEN LStripSpace(Tail(s)) ELSE s

RECURSIVE RStripSpace(_)
RStripSpace(s) ==
    IF s # <<>> /\ IsSpace(s[Len(s)])
    THEN RStripSpace(SubSeq(s, 1, Len(s) - 1))
    ELSE s

\* str.strip(): no leading and no trailing whitespace.
strip(s) == RStripSpace(LStripSpace(s))

\* x.lstrip('0')
RECURSIVE lstrip0(_)
lstrip0(s) ==
    IF s # <<>> /\ Head(s) = "0" THEN lstrip0(Tail(s)) ELSE s

\* unidecode's transliteration of one character: Latin letters with a
\* diacritic lose it, ASCII is left alone.
UnidecodeChar(c) ==
    CASE c = "A'" -> <<"A">>
      [] c = "E'" -> <<"E">>
      [] c = "I'" -> <<"I">>
      [] c = "N~" -> <<"N">>
      [] c = "O'" -> <<"O">>
      [] c = "U'" -> <<"U">>
      [] c = "a'" -> <<"a">>
      [] c = "e'" -> <<"e">>
      [] c = "i'" -> <<"i">>
      [] c = "n~" -> <<"n">>
      [] c = "o'" -> <<"o">>
      [] c = "u'" -> <<"u">>
      [] OTHER -> <<c>>

RECURSIVE unidecode(_)
unidecode(s) ==
    IF s = <<>> THEN <<>> ELSE UnidecodeChar(Head(s)) \o unidecode(Tail(s))

\* s.startswith(p)
StartsWith(s, p) == Len(p) <= Len(s) /\ SubSeq(s, 1, Len(p)) = p

\* old in s
Contains(s, old) ==
    \E i \in 1..(Len(s) - Len(old) + 1) : SubSeq(s, i, i + Len(old) - 1) = old

\* s.replace(old, new): every non-overlapping occurrence, left to right.
RECURSIVE replace(_, _, _)
replace(s, old, new) ==
    IF s = <<>> THEN <<>>
    ELSE IF StartsWith(s, old)
         THEN new \o replace(SubSeq(s, Len(old) + 1, Len(s)), old, new)
         ELSE <<Head(s)>> \o replace(Tail(s), old, new)

(***************************************************************************)
(* clean_station_name                                                      *)
(***************************************************************************)

\* The replacements dict, in insertion order: <<old, new>> pairs.
replacements ==
    <<
      \* 'terminal aerea': 'terminal area'
      <<
        << "t", "e", "r", "m", "i", "n", "a", "l", " ", "a", "e", "r", "e",
           "a" >>,
        << "t", "e", "r", "m", "i", "n", "a", "l", " ", "a", "r", "e", "a" >>
      >>,
      \* 'lazaro cardenas': 'l. cardenas'
      <<
        << "l", "a", "z", "a", "r", "o", " ", "c", "a", "r", "d", "e", "n",
           "a", "s" >>,
        << "l", ".", " ", "c", "a", "r", "d", "e", "n", "a", "s" >>
      >>,
      \* 'ninos heroes/poder judicial cdmx': 'ninos heroes'
      <<
        << "n", "i", "n", "o", "s", " ", "h", "e", "r", "o", "e", "s", "/",
           "p", "o", "d", "e", "r", " ", "j", "u", "d", "i", "c", "i", "a",
           "l", " ", "c", "d", "m", "x" >>,
        << "n", "i", "n", "o", "s", " ", "h", "e", "r", "o", "e", "s" >>
      >>,
      \* 'uam azcapotzalco': 'uam-azcapotzalco'
      <<
        << "u", "a", "m", " ", "a", "z", "c", "a", "p", "o", "t", "z", "a",
           "l", "c", "o" >>,
        << "u", "a", "m", "-", "a", "z", "c", "a", "p", "o", "t", "z", "a",
           "l", "c", "o" >>
      >>,
      \* 'mixhiuca': 'mixiuhca'
      <<
        << "m", "i", "x", "h", "i", "u", "c", "a" >>,
        << "m", "i", "x", "i", "u", "h", "c", "a" >>
      >>
    >>

\* The loop over replacements.items(), from entry k on.
RECURSIVE ApplyReplacements(_, _)
ApplyReplacements(cleaned, k) ==
    IF k > Len(replacements) THEN cleaned
    ELSE LET old == replacements[k][1]
             new == replacements[k][2]
         IN  IF Contains(cleaned, old)
             THEN ApplyReplacements(replace(cleaned, old, new), k + 1)
             ELSE ApplyReplacements(cleaned, k + 1)

clean_station_name(name) ==
    ApplyReplacements(unidecode(strip(lower(name))), 1)

\* The ridership loader's line key: unidecode(x.lower().strip()).
clean_linea(x) == unidecode(strip(lower(x)))

\* "linea "
linea_prefix ==
    << "l", "i", "n", "e", "a", " " >>

\* The geometry loader's line key: 'linea ' + x.lstrip('0').lower().
kml_linea_clean(x) == linea_prefix \o lower(lstrip0(x))

(***************************************************************************)
(* Dates                                                                   *)
(***************************************************************************)

\* A date is <<year, month, day>>.
DateLess(a, b) ==
    \/ a[1] < b[1]
    \/ a[1] = b[1] /\ a[2] < b[2]
    \/ a[1] = b[1] /\ a[2] = b[2] /\ a[3] < b[3]

DateLeq(a, b) == a = b \/ DateLess(a, b)

Digits == << "0", "1", "2", "3", "4", "5", "6", "7", "8", "9" >>

DigitChar(n) == Digits[n + 1]

\* strftime("%Y-%m"): the year on four digits, "-", the month on two.
strftime_Ym(d) ==
    << DigitChar((d[1] \div 1000) % 10), DigitChar((d[1] \div 100) % 10),
       DigitChar((d[1] \div 10) % 10), DigitChar(d[1] % 10),
       "-",
       DigitChar((d[2] \div 10) % 10), DigitChar(d[2] % 10) >>

(***************************************************************************)
(* DataFrame helpers                                                       *)
(***************************************************************************)

NaN == <<>>

RECURSIVE SumSeq(_)
SumSeq(s) == IF s = <<>> THEN 0 ELSE Head(s) + SumSeq(Tail(s))

\* df[mask]: the rows of df at which the mask is true, in df's order.
RECURSIVE SelectMask(_, _)
SelectMask(df, mask) ==
    IF df = <<>> THEN <<>>
    ELSE (IF Head(mask) THEN <<Head(df)>> ELSE <<>>)
         \o SelectMask(Tail(df), Tail(mask))

\* The elements of a finite set in increasing order, given for each the
\* number of elements below it.
SortByRank(S, rank) ==
    Tuple([j \in 1..Cardinality(S) |-> CHOOSE x \in S : rank[x] = j - 1])

\* A set of strings in increasing order.
SortStrings(S) ==
    SortByRank(S, [x \in S |-> Cardinality({y \in S : StrLess(y, x)})])

Range(s) == {s[i] : i \in 1..Len(s)}

\* Series.unique(): the distinct values in order of first appearance.
RECURSIVE unique(_)
unique(s) ==
    IF s = <<>> THEN <<>>
    ELSE LET init == unique(SubSeq(s, 1, Len(s) - 1))
         IN  IF s[Len(s)] \in Range(init) THEN init
             ELSE Append(init, s[Len(s)])

\* Order of the group keys <<year_month, linea_clean, estacion_clean>>.
KeyLess(a, b) ==
    \/ StrLess(a[1], b[1])
    \/ a[1] = b[1] /\ StrLess(a[2], b[2])
    \/ a[1] = b[1] /\ a[2] = b[2] /\ StrLess(a[3], b[3])

\* A set of group keys in increasing order.
SortKeys(S) ==
    SortByRank(S, [x \in S |-> Cardinality({y \in S : KeyLess(y, x)})])

\* sort_values(ascending=False) with the default, unstable sort: every
\* arrangement of the keys S in which the values val[k] never increase.
RECURSIVE DescendingOrders(_, _)
DescendingOrders(S, val) ==
    IF S = {} THEN {<<>>}
    ELSE UNION { { <<k>> \o rest : rest \in DescendingOrders(S \ {k}, val) } :
                 k \in {x \in S : \A y \in S : val[y] <= val[x]} }

\* head(n)
head(s, n) == SubSeq(s, 1, IF Len(s) < n THEN Len(s) ELSE n)

(***************************************************************************)
(* The loaders                                                             *)
(***************************************************************************)

\* A ridership file row is [fecha, estacion, linea, afluencia];
\* pd.to_datetime keeps the date, and three columns are derived from it.
load_and_preprocess_data(rows) ==
    Tuple([i \in 1..Len(rows) |->
        [fecha          |-> rows[i].fecha,
         estacion       |-> rows[i].estacion,
         linea          |-> rows[i].linea,
         afluencia      |-> rows[i].afluencia,
         year_month     |-> strftime_Ym(rows[i].fecha),
         estacion_clean |-> clean_station_name(rows[i].estacion),
         linea_clean    |-> clean_linea(rows[i].linea)]])

\* The text of the cells that follow the NOMBRE and the LINEA cell of a
\* placemark's description, stripped.
extract_info_from_html(html) == <<strip(html.NOMBRE), strip(html.LINEA)>>

\* Line 44 over no point row: Series.apply returns an empty Series, not a
\* frame of two columns, and its assignment to the two columns ['estacion',
\* 'linea'] raises ValueError.
load_and_process_kml_data_raises(gdf) == Len(gdf) = 0

\* A placemark is [Description, y, x]: its description table and its point.
\* The frame returned over at least one point row.
load_and_process_kml_data(gdf) ==
    Tuple([i \in 1..Len(gdf) |->
        LET info == extract_info_from_html(gdf[i].Description)
        IN  [lat            |-> gdf[i].y,
             lon            |-> gdf[i].x,
             estacion       |-> info[1],
             linea          |-> info[2],
             estacion_clean |-> clean_station_name(info[1]),
             linea_clean    |-> kml_linea_clean(info[2])]])

(***************************************************************************)
(* The joined view (main, lines 103-104)                                   *)
(***************************************************************************)

GroupKey(r) == <<r.year_month, r.linea_clean, r.estacion_clean>>

\* groupby([year_month, linea_clean, estacion_clean])['afluencia'].sum()
\* .reset_index(): one row per key, keys sorted.
groupby_month_linea_estacion(df) ==
    LET keys == SortKeys({GroupKey(df[i]) : i \in 1..Len(df)})
        Afl(k) == SumSeq(Tuple([i \in 1..Len(df) |->
                      IF GroupKey(df[i]) = k THEN df[i].afluencia ELSE 0]))
    IN  Tuple([j \in 1..Len(keys) |->
            [year_month     |-> keys[j][1],
             linea_clean    |-> keys[j][2],
             estacion_clean |-> keys[j][3],
             afluencia      |-> Afl(keys[j])]])

\* The rows a left row yields in a left merge on (estacion_clean,
\* linea_clean): one per matching right row, in the right frame's order, or
\* one with missing coordinates when nothing matches.
MergeRow(l, right) ==
    LET hits == SelectMask(right, Tuple([j \in 1..Len(right) |->
                    /\ right[j].estacion_clean = l.estacion_clean
                    /\ right[j].linea_clean = l.linea_clean]))
        With(lat, lon) ==
            [year_month     |-> l.year_month,
             linea_clean    |-> l.linea_clean,
             estacion_clean |-> l.estacion_clean,
             afluencia      |-> l.afluencia,
             lat            |-> lat,
             lon            |-> lon]
    IN  IF hits = <<>> THEN << With(NaN, NaN) >>
        ELSE Tuple([j \in 1..Len(hits) |->
                       With(<<hits[j].lat>>, <<hits[j].lon>>)])

RECURSIVE merge_left(_, _)
merge_left(left, right) ==
    IF left = <<>> THEN <<>>
    ELSE MergeRow(Head(left), right) \o merge_left(Tail(left), right)

(***************************************************************************)
(* filter_data                                                             *)
(***************************************************************************)

\* filter_mask with the end month excluded.
filter_mask_end_excluded(r, linea, start_date, end_date) ==
    /\ r.linea_clean = lower(linea)
    /\ StrLeq(strftime_Ym(start_date), r.year_month)
    /\ StrLess(r.year_month, strftime_Ym(end_date))

\* filter_mask without the test against the end date.
filter_mask_no_end(r, linea, start_date, end_date) ==
    /\ r.linea_clean = lower(linea)
    /\ StrLeq(strftime_Ym(start_date), r.year_month)

\* The boolean mask of filter_data.
filter_mask(r, linea, start_date, end_date) ==
    /\ r.linea_clean = lower(linea)
    /\ StrLeq(strftime_Ym(start_date), r.year_month)
    /\ StrLeq(r.year_month, strftime_Ym(end_date))

\* reset_index(): the old row labels 0, 1, ... become the column "index".
WithIndex(df) ==
    Tuple([i \in 1..Len(df) |->
        [index          |-> i - 1,
         year_month     |-> df[i].year_month,
         linea_clean    |-> df[i].linea_clean,
         estacion_clean |-> df[i].estacion_clean,
         afluencia      |-> df[i].afluencia,
         lat            |-> df[i].lat,
         lon            |-> df[i].lon]])

filter_data(df, linea, start_date, end_date) ==
    SelectMask(WithIndex(df),
               Tuple([i \in 1..Len(df) |->
                   filter_mask(df[i], linea, start_date, end_date)]))

(***************************************************************************)
(* create_line_chart                                                       *)
(***************************************************************************)

StationsOf(df) == {df[i].estacion_clean : i \in 1..Len(df)}

MonthsOf(df) == {df[i].year_month : i \in 1..Len(df)}

\* groupby('estacion_clean')['afluencia'].sum(), as a function of the station.
total_afluencia_per_station(df) ==
    [s \in StationsOf(df) |->
            SumSeq(Tuple([i \in 1..Len(df) |->
            IF df[i].estacion_clean = s THEN df[i].afluencia ELSE 0]))]

\* top_5_stations_choices with the totals sorted in ascending order.
top_5_stations_ascending(df) ==
    { head(order, 5) :
        order \in DescendingOrders(StationsOf(df),
                     [s \in StationsOf(df) |->
                         0 - total_afluencia_per_station(df)[s]]) }

\* The values .sort_values(ascending=False).head(5).index.tolist() can take.
top_5_stations_choices(df) ==
    { head(order, 5) :
        order \in DescendingOrders(StationsOf(df),
                                   total_afluencia_per_station(df)) }

\* DataFrame.pivot raises ValueError ("Index contains duplicate entries")
\* when two rows share (year_month, estacion_clean).
pivot_raises(df) ==
    \E i, j \in 1..Len(df) :
        /\ i < j
        /\ df[i].year_month = df[j].year_month
        /\ df[i].estacion_clean = df[j].estacion_clean

\* A cell of pivoted_df: the afluencia of the row with that month and
\* station, NaN when there is none.
pivot_cell(df, ym, s) ==
    IF \E i \in 1..Len(df) : df[i].year_month = ym /\ df[i].estacion_clean = s
    THEN << df[CHOOSE i \in 1..Len(df) :
                   df[i].year_month = ym /\ df[i].estacion_clean = s].afluencia >>
    ELSE NaN

\* pivoted_df.sum(axis=1) at one month: NaN cells are skipped.
pivot_row_sum(df, ym) ==
    LET cols == SortStrings(StationsOf(df))
    IN  SumSeq(Tuple([j \in 1..Len(cols) |->
            IF pivot_cell(df, ym, cols[j]) = NaN THEN 0
            ELSE pivot_cell(df, ym, cols[j])[1]]))

\* "Total"
TotalColumn ==
    << "T", "o", "t", "a", "l" >>

\* create_line_chart with Total summed over the top-5 columns only.
create_line_chart_total_of_top_5(df, top_5_stations) ==
    LET index == SortStrings(MonthsOf(df))
        cells(i) == Tuple([j \in 1..Len(top_5_stations) |->
                        pivot_cell(df, index[i], top_5_stations[j])])
    IN  [index   |-> index,
         columns |-> Append(top_5_stations, TotalColumn),
         data    |-> Tuple([i \in 1..Len(index) |->
                        Append(cells(i),
                               << SumSeq(Tuple([j \in 1..Len(cells(i)) |->
                                      IF cells(i)[j] = NaN THEN 0
                                      ELSE cells(i)[j][1]])) >>)])]

\* The frame handed to st.line_chart: the months in increasing order, the
\* top-5 columns followed by Total, and a row of cells for each month.
create_line_chart(df, top_5_stations) ==
    LET index == SortStrings(MonthsOf(df))
    IN  [index   |-> index,
         columns |-> Append(top_5_stations, TotalColumn),
         data    |-> Tuple([i \in 1..Len(index) |->
                        Append([j \in 1..Len(top_5_stations) |->
                                   pivot_cell(df, index[i], top_5_stations[j])],
                               <<pivot_row_sum(df, index[i])>>)])]

(***************************************************************************)
(* display_map_and_table                                                   *)
(***************************************************************************)

\* agg 'first': the first value of the group that is not missing.
first_valid(s) ==
    IF \E i \in 1..Len(s) : s[i] # NaN
    THEN s[CHOOSE i \in 1..Len(s) :
               s[i] # NaN /\ \A k \in 1..(i - 1) : s[k] = NaN]
    ELSE NaN

\* float64.  A positive float64 is [exp, mant]: mant is its significand, 53
\* bits with the leading 1 first, and its value is mant * 2^(exp - 52); every
\* result below is far from the subnormal and the infinite range.
SignificandBits == 53

\* 0.0
FloatZero == [exp |-> 0, mant |-> Tuple([i \in 1..SignificandBits |-> 0])]

RECURSIVE Pow2(_)
Pow2(k) == IF k = 0 THEN 1 ELSE 2 * Pow2(k - 1)

\* The bits of the integer n >= 0, the leading 1 first; none for 0.
RECURSIVE IntBits(_)
IntBits(n) == IF n = 0 THEN <<>> ELSE IntBits(n \div 2) \o <<n % 2>>

\* The bits of bits + 1, one bit longer when the carry runs out of the top.
Increment(bits) ==
    LET zeros == {i \in 1..Len(bits) : bits[i] = 0}
        z     == IF zeros = {} THEN 0
                 ELSE CHOOSE i \in zeros : \A k \in zeros : k <= i
    IN  SubSeq(bits, 1, z - 1) \o <<1>>
            \o Tuple([i \in 1..(Len(bits) - z) |-> 0])

\* Rounding to nearest, ties to even, of the number whose bits (leading 1
\* first, at least 53 of them) stand for bits * 2^(exp - (Len(bits) - 1)),
\* plus a fraction of the last place that is not zero when sticky is true.
round_half_even(bits, sticky, exp) ==
    LET kept  == SubSeq(bits, 1, SignificandBits)
        guard == IF Len(bits) > SignificandBits
                 THEN bits[SignificandBits + 1] ELSE 0
        rest  == sticky \/ \E i \in (SignificandBits + 2)..Len(bits) :
                               bits[i] = 1
        up    == guard = 1 /\ (rest \/ kept[SignificandBits] = 1)
        inc   == Increment(kept)
    IN  IF ~up THEN [exp |-> exp, mant |-> kept]
        ELSE IF Len(inc) > SignificandBits
             THEN [exp |-> exp + 1, mant |-> SubSeq(inc, 1, SignificandBits)]
             ELSE [exp |-> exp, mant |-> inc]

\* float(n) for an integer 0 <= n < 2^53
float_of_int(n) ==
    IF n = 0 THEN FloatZero
    ELSE LET b == IntBits(n)
         IN  [exp  |-> Len(b) - 1,
              mant |-> b \o Tuple([i \in 1..(SignificandBits - Len(b)) |-> 0])]

\* The exponent e of a / b for integers a, b > 0: 2^e <= a / b < 2^(e + 1).
Exponent(a, b) ==
    IF a >= b
    THEN CHOOSE k \in 0..30 : b * Pow2(k) <= a /\ a < b * Pow2(k + 1)
    ELSE - (CHOOSE k \in 1..30 : a * Pow2(k) >= b /\ a * Pow2(k - 1) < b)

\* Long division: the next n >= 1 bits of r / den for 0 <= r < den, and the
\* remainder left after them (the first half of the bits, then the rest).
RECURSIVE QuotientBits(_, _, _)
QuotientBits(r, den, n) ==
    IF n = 1
    THEN LET b == IF 2 * r >= den THEN 1 ELSE 0
         IN  [bits |-> <<b>>, rem |-> 2 * r - b * den]
    ELSE LET first == QuotientBits(r, den, n \div 2)
             rest  == QuotientBits(first.rem, den, n - n \div 2)
         IN  [bits |-> first.bits \o rest.bits, rem |-> rest.rem]

\* a / b in float64 for integers a >= 0 and b > 0: the quotient, rounded.
float_truediv(a, b) ==
    IF a = 0 THEN FloatZero
    ELSE LET e   == Exponent(a, b)
             num == IF e >= 0 THEN a ELSE a * Pow2(-e)
             den == IF e >= 0 THEN b * Pow2(e) ELSE b
             q   == QuotientBits(num - den, den, SignificandBits)
         IN  round_half_even(<<1>> \o q.bits, q.rem # 0, e)

\* bits * k + carry for at least one bit: its Len(bits) low bits, and what
\* is carried out of them (the low half of the bits, then the high half).
RECURSIVE TimesBits(_, _, _)
TimesBits(bits, k, carry) ==
    IF Len(bits) = 1
    THEN LET t == bits[1] * k + carry
         IN  [bits |-> <<t % 2>>, carry |-> t \div 2]
    ELSE LET h  == Len(bits) \div 2
             lo == TimesBits(SubSeq(bits, h + 1, Len(bits)), k, carry)
             hi == TimesBits(SubSeq(bits, 1, h), k, lo.carry)
             out == <<lo.bits, hi.bits>>
         IN  [bits |-> out[2] \o out[1], carry |-> hi.carry]

\* x * k in float64 for a float x >= 0 and an integer k > 0: the product,
\* rounded.
float_mul(x, k) ==
    IF x = FloatZero THEN FloatZero
    ELSE LET t == TimesBits(x.mant, k, 0)
             p == IntBits(t.carry) \o t.bits
         IN  round_half_even(p, FALSE, x.exp + Len(p) - SignificandBits)

\* x <= y for floats x, y >= 0
FloatLeq(x, y) ==
    \/ x = FloatZero
    \/ /\ y # FloatZero
       /\ \/ x.exp < y.exp
          \/ /\ x.exp = y.exp
             /\ \A i \in 1..SignificandBits :
                    x.mant[i] > y.mant[i]
                        => \E k \in 1..(i - 1) : x.mant[k] < y.mant[k]

\* (afluencia / max) * 1000 in float64, two roundings: 0 / 0 is NaN.
marker_size(afluencia, max) ==
    IF max = 0 THEN NaN
    ELSE <<float_mul(float_truediv(afluencia, max), 1000)>>

\* Series.max(): the largest value.
SeriesMax(s) == CHOOSE m \in Range(s) : \A v \in Range(s) : v <= m

\* groupby('estacion_clean').agg(sum, first, first).reset_index() and the
\* size column: one row per station, stations sorted.
stations_aggregate_of(df) ==
    LET keys == SortStrings(StationsOf(df))
        Of(s) == SelectMask(df, Tuple([i \in 1..Len(df) |->
                     df[i].estacion_clean = s]))
        Column(g, c) == Tuple([i \in 1..Len(g) |-> g[i][c]])
        afl == Tuple([j \in 1..Len(keys) |->
                   SumSeq(Column(Of(keys[j]), "afluencia"))])
    IN  Tuple([j \in 1..Len(keys) |->
            [estacion_clean |-> keys[j],
             afluencia      |-> afl[j],
             lat            |-> first_valid(Column(Of(keys[j]), "lat")),
             lon            |-> first_valid(Column(Of(keys[j]), "lon")),
             size           |-> marker_size(afl[j], SeriesMax(afl))]])

\* str(n) for 0 <= n
RECURSIVE IntStr(_)
IntStr(n) ==
    IF n < 10 THEN <<DigitChar(n)>>
    ELSE Append(IntStr(n \div 10), DigitChar(n % 10))

\* f"{int(x):,}": groups of three digits separated by commas.
RECURSIVE format_thousands(_)
format_thousands(n) ==
    IF n < 1000 THEN IntStr(n)
    ELSE format_thousands(n \div 1000)
         \o << ",", DigitChar((n \div 100) % 10), DigitChar((n \div 10) % 10),
               DigitChar(n % 10) >>

\* table_order_choices with the riderships sorted in ascending order.
table_order_ascending(agg) ==
    DescendingOrders(1..Len(agg), [j \in 1..Len(agg) |-> 0 - agg[j].afluencia])

\* The values sort_values('afluencia', ascending=False) can give the rows of
\* the aggregate: sequences of row numbers.
table_order_choices(agg) ==
    DescendingOrders(1..Len(agg), [j \in 1..Len(agg) |-> agg[j].afluencia])

\* The frame handed to st.table.
station_afluencia_table_of(agg, order) ==
    Tuple([j \in 1..Len(order) |->
        [Estacion  |-> agg[order[j]].estacion_clean,
         Afluencia |-> format_thousands(agg[order[j]].afluencia)]])

\* Whether a row of the map data lacks a coordinate.
HasNullCoordinate(r) == r.lat = NaN \/ r.lon = NaN

(***************************************************************************)
(* State                                                                   *)
(***************************************************************************)

VARIABLES
    csv_file,                 \* afluenciastc_simple_02_2024.csv: [exists, rows]
    kml_file,                 \* stc.kml: [exists, placemarks]
    pc,                       \* the statement of main the pass is at
    reads,                    \* how often each loader was invoked in the pass
    rendered,                 \* the elements st.* has put on the page
    df_stc,
    stations_info,
    selected_linea_stc,
    start_date_stc,
    end_date_stc,
    df_month_estacion_stc,
    filtered_df_stations_stc,
    line_chart,               \* the frame handed to st.line_chart
    stations_aggregate,       \* the frame handed to st.write and st.map
    station_afluencia_table,  \* the frame handed to st.table
    name,                     \* a name given to clean_station_name
    cleaned,                  \* clean_station_name(name)
    recleaned                 \* clean_station_name(cleaned)

vars ==
    << csv_file, kml_file, pc, reads, rendered, df_stc, stations_info,
       selected_linea_stc, start_date_stc, end_date_stc,
       df_month_estacion_stc, filtered_df_stations_stc, line_chart,
       stations_aggregate, station_afluencia_table, name, cleaned, recleaned >>

pass_vars ==
    << df_stc, stations_info, selected_linea_stc, start_date_stc,
       end_date_stc, df_month_estacion_stc, filtered_df_stations_stc,
       line_chart, stations_aggregate, station_afluencia_table >>

name_vars == << name, cleaned, recleaned >>

file_vars == << csv_file, kml_file >>

NoChart == [index |-> <<>>, columns |-> <<>>, data |-> <<>>]

(***************************************************************************)
(* main, statement by statement                                            *)
(***************************************************************************)

\* Lines 88-90: the title, then the ridership loader.  pd.read_csv raises
\* when the file cannot be read, and the exception ends the pass.
Main_LoadData ==
    /\ pc = "load_and_preprocess_data"
    /\ rendered' = rendered \cup {"title"}
    /\ reads' = [reads EXCEPT !.csv = @ + 1]
    /\ IF csv_file.exists
       THEN /\ df_stc' = load_and_preprocess_data(csv_file.rows)
            /\ pc' = "load_and_process_kml_data"
       ELSE /\ df_stc' = df_stc
            /\ pc' = "raised"
    /\ UNCHANGED << stations_info, selected_linea_stc, start_date_stc,
                    end_date_stc, df_month_estacion_stc,
                    filtered_df_stations_stc, line_chart, stations_aggregate,
                    station_afluencia_table >>
    /\ UNCHANGED << file_vars, name_vars >>

\* Main_LoadKml with the failure swallowed: the pass goes on without stations.
Main_LoadKml_swallowed ==
    /\ pc = "load_and_process_kml_data"
    /\ reads' = [reads EXCEPT !.kml = @ + 1]
    /\ stations_info' =
           IF /\ kml_file.exists
              /\ ~load_and_process_kml_data_raises(kml_file.placemarks)
           THEN load_and_process_kml_data(kml_file.placemarks)
           ELSE <<>>
    /\ pc' = "selectbox"
    /\ UNCHANGED << df_stc, selected_linea_stc, start_date_stc, end_date_stc,
                    df_month_estacion_stc, filtered_df_stations_stc,
                    line_chart, stations_aggregate, station_afluencia_table >>
    /\ UNCHANGED << file_vars, name_vars, rendered >>

\* Line 91: the geometry loader; gpd.read_file raises likewise, and so does
\* the loader over a file without a point placemark.
Main_LoadKml ==
    /\ pc = "load_and_process_kml_data"
    /\ reads' = [reads EXCEPT !.kml = @ + 1]
    /\ IF /\ kml_file.exists
          /\ ~load_and_process_kml_data_raises(kml_file.placemarks)
       THEN /\ stations_info' = load_and_process_kml_data(kml_file.placemarks)
            /\ pc' = "selectbox"
       ELSE /\ stations_info' = stations_info
            /\ pc' = "raised"
    /\ UNCHANGED << df_stc, selected_linea_stc, start_date_stc, end_date_stc,
                    df_month_estacion_stc, filtered_df_stations_stc,
                    line_chart, stations_aggregate, station_afluencia_table >>
    /\ UNCHANGED << file_vars, name_vars, rendered >>

\* Lines 93-94: the line selector returns one of the distinct line keys.
\* Over no options it returns None, and None.lower() (line 96) raises.
Main_SelectLinea ==
    /\ pc = "selectbox"
    /\ rendered' = rendered \cup {"selectbox"}
    /\ LET lineas_stc ==
               unique(Tuple([i \in 1..Len(df_stc) |-> df_stc[i].linea_clean]))
       IN  IF lineas_stc = <<>>
           THEN /\ selected_linea_stc' = selected_linea_stc
                /\ pc' = "raised"
           ELSE /\ \E k \in 1..Len(lineas_stc) :
                       selected_linea_stc' = lineas_stc[k]
                /\ pc' = "date_input"
    /\ UNCHANGED << df_stc, stations_info, start_date_stc, end_date_stc,
                    df_month_estacion_stc, filtered_df_stations_stc,
                    line_chart, stations_aggregate, station_afluencia_table >>
    /\ UNCHANGED << file_vars, name_vars, reads >>

\* Line 96: the rows of the selected line with riders.
df_filtered_by_line(df, linea) ==
    LET key == clean_linea(linea)
    IN  SelectMask(df, Tuple([i \in 1..Len(df) |->
            df[i].linea_clean = key /\ df[i].afluencia > 0]))

\* The days the two date pickers offer (between min_value and max_value).
CalendarDays ==
    { <<2024, 1, 5>>, <<2024, 1, 20>>, <<2024, 2, 10>>, <<2024, 3, 15>> }

\* Lines 96-101: each picker returns a day between the first and the last day
\* with riders on the selected line.  With no such day the bounds are NaT,
\* which st.date_input rejects.
Main_DateInputs ==
    /\ pc = "date_input"
    /\ LET by_line == df_filtered_by_line(df_stc, selected_linea_stc)
           fechas == {by_line[i].fecha : i \in 1..Len(by_line)}
       IN  IF fechas = {}
           THEN /\ UNCHANGED << start_date_stc, end_date_stc, rendered >>
                /\ pc' = "raised"
           ELSE LET min_date == CHOOSE d \in fechas :
                                    \A e \in fechas : DateLeq(d, e)
                    max_date == CHOOSE d \in fechas :
                                    \A e \in fechas : DateLeq(e, d)
                    offered == {d \in CalendarDays :
                                   DateLeq(min_date, d) /\ DateLeq(d, max_date)}
                IN  /\ \E s \in offered, e \in offered :
                           /\ start_date_stc' = s
                           /\ end_date_stc' = e
                    /\ rendered' = rendered \cup {"date_input"}
                    /\ pc' = "merge"
    /\ UNCHANGED << df_stc, stations_info, selected_linea_stc,
                    df_month_estacion_stc, filtered_df_stations_stc,
                    line_chart, stations_aggregate, station_afluencia_table >>
    /\ UNCHANGED << file_vars, name_vars, reads >>

\* Lines 103-104: the monthly sums, left-joined with the coordinates.
Main_Join ==
    /\ pc = "merge"
    /\ df_month_estacion_stc' =
           merge_left(groupby_month_linea_estacion(df_stc), stations_info)
    /\ pc' = "filter_data"
    /\ UNCHANGED << df_stc, stations_info, selected_linea_stc, start_date_stc,
                    end_date_stc, filtered_df_stations_stc, line_chart,
                    stations_aggregate, station_afluencia_table >>
    /\ UNCHANGED << file_vars, name_vars, reads, rendered >>

\* Line 106.
Main_Filter ==
    /\ pc = "filter_data"
    /\ filtered_df_stations_stc' =
           filter_data(df_month_estacion_stc, selected_linea_stc,
                       start_date_stc, end_date_stc)
    /\ pc' = "create_line_chart"
    /\ UNCHANGED << df_stc, stations_info, selected_linea_stc, start_date_stc,
                    end_date_stc, df_month_estacion_stc, line_chart,
                    stations_aggregate, station_afluencia_table >>
    /\ UNCHANGED << file_vars, name_vars, reads, rendered >>

\* Line 108: create_line_chart.  The order of stations with equal totals is
\* the sort's choice; a duplicate (month, station) pair makes pivot raise.
Main_LineChart ==
    /\ pc = "create_line_chart"
    /\ IF pivot_raises(filtered_df_stations_stc)
       THEN /\ UNCHANGED << line_chart, rendered >>
            /\ pc' = "raised"
       ELSE /\ \E top_5_stations \in
                      top_5_stations_choices(filtered_df_stations_stc) :
                   line_chart' = create_line_chart(filtered_df_stations_stc,
                                                   top_5_stations)
            /\ rendered' = rendered \cup {"line_chart"}
            /\ pc' = "display_map_and_table"
    /\ UNCHANGED << df_stc, stations_info, selected_linea_stc, start_date_stc,
                    end_date_stc, df_month_estacion_stc,
                    filtered_df_stations_stc, stations_aggregate,
                    station_afluencia_table >>
    /\ UNCHANGED << file_vars, name_vars, reads >>

\* Line 109: display_map_and_table.  The aggregate goes to st.write and, all
\* of its rows, to st.map; st.map may reject a missing coordinate, which ends
\* the pass before the table.  The order of equal riderships in the table is
\* the sort's choice.
Main_MapAndTable ==
    /\ pc = "display_map_and_table"
    /\ LET agg == stations_aggregate_of(filtered_df_stations_stc)
           null == \E j \in 1..Len(agg) : HasNullCoordinate(agg[j])
       IN  /\ stations_aggregate' = agg
           /\ \E map_raises \in (IF null THEN BOOLEAN ELSE {FALSE}) :
                  IF map_raises
                  THEN /\ rendered' = rendered \cup {"write"}
                       /\ station_afluencia_table' = station_afluencia_table
                       /\ pc' = "raised"
                  ELSE /\ rendered' = rendered \cup {"write", "map", "table"}
                       /\ \E order \in table_order_choices(agg) :
                              station_afluencia_table' =
                                  station_afluencia_table_of(agg, order)
                       /\ pc' = "done"
    /\ UNCHANGED << df_stc, stations_info, selected_linea_stc, start_date_stc,
                    end_date_stc, df_month_estacion_stc,
                    filtered_df_stations_stc, line_chart >>
    /\ UNCHANGED << file_vars, name_vars, reads >>

Next ==
    \/ Main_LoadData
    \/ Main_LoadKml
    \/ Main_SelectLinea
    \/ Main_DateInputs
    \/ Main_Join
    \/ Main_Filter
    \/ Main_LineChart
    \/ Main_MapAndTable

(***************************************************************************)
(* The inputs of a pass: the two files                                     *)
(***************************************************************************)

MaxRows == 3

MaxPlacemarks == 2

\* "Station A"
Station_A ==
    << "S", "t", "a", "t", "i", "o", "n", " ", "A" >>

\* "Station B"
Station_B ==
    << "S", "t", "a", "t", "i", "o", "n", " ", "B" >>

\* " STATION B "
STATION_B_padded ==
    << " ", "S", "T", "A", "T", "I", "O", "N", " ", "B", " " >>

\* "Linea 1" with i-acute
Linea_1_accent ==
    << "L", "i'", "n", "e", "a", " ", "1" >>

\* "Line 1"
Line_1 ==
    << "L", "i", "n", "e", " ", "1" >>

\* "01"
kml_01 ==
    << "0", "1" >>

\* "1"
kml_1 ==
    << "1" >>

\* Order of the rows of a ridership file: by day, station, line and riders.
RowLess(a, b) ==
    \/ DateLess(a.fecha, b.fecha)
    \/ a.fecha = b.fecha /\ StrLess(a.estacion, b.estacion)
    \/ a.fecha = b.fecha /\ a.estacion = b.estacion
       /\ StrLess(a.linea, b.linea)
    \/ a.fecha = b.fecha /\ a.estacion = b.estacion /\ a.linea = b.linea
       /\ a.afluencia < b.afluencia

\* The rows a ridership file is made of: station A of one line with riders
\* on three days, stations A and B with and without riders on the second
\* day, and one row of a second line.
RidershipRows ==
    LET S == [fecha : {<<2024, 1, 5>>, <<2024, 2, 10>>, <<2024, 3, 15>>},
              estacion : {Station_A},
              linea : {Linea_1_accent},
              afluencia : {100}]
             \cup
             [fecha : {<<2024, 2, 10>>},
              estacion : {Station_A, Station_B},
              linea : {Linea_1_accent},
              afluencia : {0, 100}]
             \cup
             {[fecha |-> <<2024, 1, 5>>, estacion |-> Station_A,
               linea |-> Line_1, afluencia |-> 100]}
    IN  SortByRank(S, [x \in S |-> Cardinality({y \in S : RowLess(y, x)})])

\* The sequences of at most n elements of the sequence u, in u's order
\* (an element may repeat).
OrderedSeqs(u, n) ==
    UNION { { [i \in 1..k |-> u[ix[i]]] :
                ix \in { f \in [1..k -> 1..Len(u)] :
                           \A i \in 1..(k - 1) : f[i] <= f[i + 1] } } :
            k \in 0..n }

\* The ridership files: unreadable, or up to MaxRows rows.
CsvFiles ==
    { [exists |-> FALSE, rows |-> <<>>] }
    \cup { [exists |-> TRUE, rows |-> r] : r \in OrderedSeqs(RidershipRows, MaxRows) }

\* The placemarks a geometry file is made of: station A twice (the line
\* written "01" and "1") and station B.
Placemarks ==
    << [Description |-> [NOMBRE |-> Station_A, LINEA |-> kml_01],
        y |-> 19, x |-> -99],
       [Description |-> [NOMBRE |-> Station_A, LINEA |-> kml_1],
        y |-> 20, x |-> -98],
       [Description |-> [NOMBRE |-> STATION_B_padded, LINEA |-> kml_01],
        y |-> 21, x |-> -97] >>

\* The geometry files: unreadable, or of up to MaxPlacemarks placemarks
\* (a readable file may hold none).
KmlFiles ==
    { [exists |-> FALSE, placemarks |-> <<>>] }
    \cup { [exists |-> TRUE, placemarks |-> p] :
             p \in OrderedSeqs(Placemarks, MaxPlacemarks) }

\* The state of a pass before its first statement.
PassStart ==
    /\ reads = [csv |-> 0, kml |-> 0]
    /\ rendered = {}
    /\ df_stc = <<>>
    /\ stations_info = <<>>
    /\ selected_linea_stc = <<>>
    /\ start_date_stc = <<>>
    /\ end_date_stc = <<>>
    /\ df_month_estacion_stc = <<>>
    /\ filtered_df_stations_stc = <<>>
    /\ line_chart = NoChart
    /\ stations_aggregate = <<>>
    /\ station_afluencia_table = <<>>

NoName ==
    /\ name = <<>>
    /\ cleaned = <<>>
    /\ recleaned = <<>>

\* One pass of main over any pair of files.
Init ==
    /\ csv_file \in CsvFiles
    /\ kml_file \in KmlFiles
    /\ pc = "load_and_preprocess_data"
    /\ PassStart
    /\ NoName

Spec == Init /\ [][Next]_vars

(***************************************************************************)
(* clean_station_name applied to a name, and again to its result           *)
(***************************************************************************)

MaxFragments == 3

\* "Ninos Heroes" with n-tilde and e-acute
frag_Ninos_Heroes ==
    << "N", "i", "n~", "o", "s", " ", "H", "e'", "r", "o", "e", "s" >>

\* "/Poder Judicial CDMX"
frag_poder_judicial ==
    << "/", "P", "o", "d", "e", "r", " ", "J", "u", "d", "i", "c", "i", "a",
       "l", " ", "C", "D", "M", "X" >>

\* "Lazaro Cardenas" with two a-acute
frag_Lazaro_Cardenas ==
    << "L", "a'", "z", "a", "r", "o", " ", "C", "a'", "r", "d", "e", "n",
       "a", "s" >>

\* "Terminal Aerea" with e-acute
frag_Terminal_Aerea ==
    << "T", "e", "r", "m", "i", "n", "a", "l", " ", "A", "e'", "r", "e", "a" >>

\* "UAM Azcapotzalco"
frag_UAM ==
    << "U", "A", "M", " ", "A", "z", "c", "a", "p", "o", "t", "z", "a", "l",
       "c", "o" >>

\* "Mixhiuca"
frag_Mixhiuca ==
    << "M", "i", "x", "h", "i", "u", "c", "a" >>

\* "Zocalo" with o-acute
frag_Zocalo ==
    << "Z", "o'", "c", "a", "l", "o" >>

\* The pieces station names are made of.
Fragments ==
    { frag_Ninos_Heroes, frag_poder_judicial, frag_Lazaro_Cardenas,
      frag_Terminal_Aerea, frag_UAM, frag_Mixhiuca, frag_Zocalo, <<" ">> }

RECURSIVE Concat(_)
Concat(parts) == IF parts = <<>> THEN <<>> ELSE Head(parts) \o Concat(Tail(parts))

\* The names of at most MaxFragments pieces.
Names ==
    UNION { { Concat(parts) : parts \in [1..k -> Fragments] } :
            k \in 0..MaxFragments }

Norm_Clean ==
    /\ pc = "clean"
    /\ cleaned' = clean_station_name(name)
    /\ pc' = "reclean"
    /\ UNCHANGED << name, recleaned, file_vars, pass_vars, reads, rendered >>

Norm_Reclean ==
    /\ pc = "reclean"
    /\ recleaned' = clean_station_name(cleaned)
    /\ pc' = "cleaned"
    /\ UNCHANGED << name, cleaned, file_vars, pass_vars, reads, rendered >>

NoFiles ==
    /\ csv_file = [exists |-> FALSE, rows |-> <<>>]
    /\ kml_file = [exists |-> FALSE, placemarks |-> <<>>]

InitNorm ==
    /\ name \in Names
    /\ cleaned = <<>>
    /\ recleaned = <<>>
    /\ pc = "clean"
    /\ NoFiles
    /\ PassStart

NextNorm == Norm_Clean \/ Norm_Reclean

SpecNorm == InitNorm /\ [][NextNorm]_vars

\* C1: normalization is idempotent: cleaning a cleaned name changes nothing.
C1_Idempotent == pc = "cleaned" => recleaned = cleaned

(***************************************************************************)
(* filter_data applied to a frame, a line and two dates                    *)
(***************************************************************************)

MaxFrameRows == 3

\* "station a"
station_a ==
    << "s", "t", "a", "t", "i", "o", "n", " ", "a" >>

\* "linea 1"
linea_1 ==
    << "l", "i", "n", "e", "a", " ", "1" >>

\* "line 1"
line_1 ==
    << "l", "i", "n", "e", " ", "1" >>

\* "LINEA 1"
LINEA_1_upper ==
    << "L", "I", "N", "E", "A", " ", "1" >>

\* The days given to strftime: the two sides of a year's end, and one month on.
FilterDays == { <<2023, 12, 31>>, <<2024, 1, 1>>, <<2024, 2, 15>> }

\* The rows of a joined frame: one station, two lines, a month of each day.
FrameRows ==
    { [year_month |-> strftime_Ym(d), linea_clean |-> l,
       estacion_clean |-> station_a, afluencia |-> 100, lat |-> NaN,
       lon |-> NaN] :
      d \in FilterDays, l \in {linea_1, line_1} }

\* The frames of at most MaxFrameRows rows, in any order, rows repeated or not.
Frames == UNION { [1..k -> FrameRows] : k \in 0..MaxFrameRows }

InitFilter ==
    /\ df_month_estacion_stc \in Frames
    /\ selected_linea_stc \in {linea_1, line_1, LINEA_1_upper}
    /\ start_date_stc \in FilterDays
    /\ end_date_stc \in FilterDays
    /\ pc = "filter_data"
    /\ reads = [csv |-> 0, kml |-> 0]
    /\ rendered = {}
    /\ df_stc = <<>>
    /\ stations_info = <<>>
    /\ filtered_df_stations_stc = <<>>
    /\ line_chart = NoChart
    /\ stations_aggregate = <<>>
    /\ station_afluencia_table = <<>>
    /\ NoFiles
    /\ NoName

NextFilter == Main_Filter

SpecFilter == InitFilter /\ [][NextFilter]_vars

\* The number of the month a "YYYY-MM" key names, counted from year 0.
MonthNumber(ym) ==
    LET v(i) == Ord(ym[i]) - Ord("0")
    IN  (v(1) * 1000 + v(2) * 100 + v(3) * 10 + v(4)) * 12
        + v(6) * 10 + v(7)

\* A row of the frame is wanted: its line is the target line and its month
\* lies between the month of the start and the month of the end date.
Wanted(r) ==
    /\ r.linea_clean = lower(selected_linea_stc)
    /\ start_date_stc[1] * 12 + start_date_stc[2] <= MonthNumber(r.year_month)
    /\ MonthNumber(r.year_month) <= end_date_stc[1] * 12 + end_date_stc[2]

\* Row out of the result is row i of the frame.
IsRow(out, i) ==
    /\ out.index = i - 1
    /\ out.year_month = df_month_estacion_stc[i].year_month
    /\ out.linea_clean = df_month_estacion_stc[i].linea_clean
    /\ out.estacion_clean = df_month_estacion_stc[i].estacion_clean
    /\ out.afluencia = df_month_estacion_stc[i].afluencia
    /\ out.lat = df_month_estacion_stc[i].lat
    /\ out.lon = df_month_estacion_stc[i].lon

\* C2: filter_data returns exactly the wanted rows of the frame, in the
\* frame's order: every returned row is a wanted row of the frame, the rows
\* come in increasing position (so none twice), and every wanted row is
\* returned.
C2_FilterExact ==
    pc = "create_line_chart" =>
        LET df == df_month_estacion_stc
            out == filtered_df_stations_stc
        IN  /\ \A k \in 1..Len(out) :
                   \E i \in 1..Len(df) : IsRow(out[k], i) /\ Wanted(df[i])
            /\ \A k \in 1..(Len(out) - 1) : out[k].index < out[k + 1].index
            /\ \A i \in 1..Len(df) :
                   Wanted(df[i]) => \E k \in 1..Len(out) : IsRow(out[k], i)

\* A frame of three rows of which filter_data returned the first and the
\* last and dropped the middle one, under a line given in upper case.
C2_Witness ==
    /\ pc = "create_line_chart"
    /\ selected_linea_stc = LINEA_1_upper
    /\ Len(df_month_estacion_stc) = 3
    /\ Len(filtered_df_stations_stc) = 2
    /\ filtered_df_stations_stc[1].index = 0
    /\ filtered_df_stations_stc[2].index = 2
    /\ filtered_df_stations_stc[1].year_month
           # filtered_df_stations_stc[2].year_month

(***************************************************************************)
(* create_line_chart applied to a filtered frame                           *)
(***************************************************************************)

MaxStations == 6

\* The station keys "a", "b", ... of the chart frames.
StationKey(n) == << LowerChars[n] >>

\* What a station has in a chart frame: riders in January, in February, or
\* in both months.
Presence == {"jan", "feb", "both"}

\* The row of station n in month m: n riders, or 1 rider in the February
\* of a station that has both months, so that neighbouring stations can tie.
StationRow(n, m, p) ==
    [year_month |-> strftime_Ym(<<2024, m, 1>>), linea_clean |-> linea_1,
     estacion_clean |-> StationKey(n),
     afluencia |-> IF m = 2 /\ p = "both" THEN 1 ELSE n,
     lat |-> NaN, lon |-> NaN]

\* The rows of month m over stations 1..k, by station.
MonthRows(k, p, m) ==
    SelectMask(Tuple([n \in 1..k |-> StationRow(n, m, p[n])]),
               Tuple([n \in 1..k |->
                   p[n] = "both" \/ p[n] = (IF m = 1 THEN "jan" ELSE "feb")]))

\* The frames of up to MaxStations stations: rows in the order of the joined
\* view (by month, then station), numbered as reset_index numbers them.
ChartFrames ==
    UNION { { WithIndex(MonthRows(k, p, 1) \o MonthRows(k, p, 2)) :
              p \in [1..k -> Presence] } :
            k \in 0..MaxStations }

InitChart ==
    /\ filtered_df_stations_stc \in ChartFrames
    /\ pc = "create_line_chart"
    /\ reads = [csv |-> 0, kml |-> 0]
    /\ rendered = {}
    /\ df_stc = <<>>
    /\ stations_info = <<>>
    /\ selected_linea_stc = linea_1
    /\ start_date_stc = <<2024, 1, 1>>
    /\ end_date_stc = <<2024, 2, 1>>
    /\ df_month_estacion_stc = <<>>
    /\ line_chart = NoChart
    /\ stations_aggregate = <<>>
    /\ station_afluencia_table = <<>>
    /\ NoFiles
    /\ NoName

NextChart == Main_LineChart

SpecChart == InitChart /\ [][NextChart]_vars

\* The riders over the rows of the filtered frame of one month.
RidersOfMonth(ym) ==
    SumSeq(Tuple([i \in 1..Len(filtered_df_stations_stc) |->
        IF filtered_df_stations_stc[i].year_month = ym
        THEN filtered_df_stations_stc[i].afluencia ELSE 0]))

\* The riders over the rows of the filtered frame of one station.
RidersOfStation(s) ==
    SumSeq(Tuple([i \in 1..Len(filtered_df_stations_stc) |->
        IF filtered_df_stations_stc[i].estacion_clean = s
        THEN filtered_df_stations_stc[i].afluencia ELSE 0]))

ChartRendered == "line_chart" \in rendered

\* The station columns of the chart: all columns but the last, Total.
Displayed ==
    { line_chart.columns[j] : j \in 1..(Len(line_chart.columns) - 1) }

\* C6: the chart has one row for each month of the filtered frame, and the
\* Total cell of a month is the sum of the riders of all rows of that month,
\* whether their station is displayed or not.
C6_TotalOverAllStations ==
    ChartRendered =>
        /\ {line_chart.index[i] : i \in 1..Len(line_chart.index)}
               = MonthsOf(filtered_df_stations_stc)
        /\ line_chart.columns[Len(line_chart.columns)] = TotalColumn
        /\ \A i \in 1..Len(line_chart.index) :
               line_chart.data[i][Len(line_chart.columns)] =
                   << RidersOfMonth(line_chart.index[i]) >>

\* A chart over six stations in which a station that is not displayed has
\* riders in January and a displayed station has none in February.
C6_Witness ==
    /\ ChartRendered
    /\ Cardinality(StationsOf(filtered_df_stations_stc)) = 6
    /\ \E i \in 1..Len(filtered_df_stations_stc) :
           /\ filtered_df_stations_stc[i].estacion_clean \notin Displayed
           /\ filtered_df_stations_stc[i].year_month = line_chart.index[1]
           /\ filtered_df_stations_stc[i].afluencia > 0
    /\ Len(line_chart.index) = 2
    /\ \E j \in 1..5 : line_chart.data[2][j] = NaN

\* C9: the chart displays min(5, number of stations) distinct stations of
\* the filtered frame, and no station left out has more riders over the
\* frame than a displayed one.
C9_TopFive ==
    ChartRendered =>
        LET all == StationsOf(filtered_df_stations_stc)
        IN  /\ Displayed \subseteq all
            /\ Len(line_chart.columns) - 1 = Cardinality(Displayed)
            /\ Cardinality(Displayed)
                   = IF Cardinality(all) < 5 THEN Cardinality(all) ELSE 5
            /\ \A s \in Displayed : \A t \in all \ Displayed :
                   RidersOfStation(s) >= RidersOfStation(t)

\* A chart over six stations that leaves out a station whose total equals
\* that of a displayed station: a tie at the cut.
C9_Witness ==
    /\ ChartRendered
    /\ Cardinality(StationsOf(filtered_df_stations_stc)) = 6
    /\ Cardinality(Displayed) = 5
    /\ \E s \in Displayed :
       \E t \in StationsOf(filtered_df_stations_stc) \ Displayed :
           RidersOfStation(s) = RidersOfStation(t)

(***************************************************************************)
(* Properties of a pass of main                                            *)
(***************************************************************************)

\* Months counted from year 0.
MonthOf(date) == date[1] * 12 + date[2]

\* C3, as claimed: when the start date is later than the end date,
\* filter_data returns no row.
C3_StartAfterEndEmpty ==
    (pc = "create_line_chart" /\ DateLess(end_date_stc, start_date_stc))
        => filtered_df_stations_stc = <<>>

\* C3, amended: when the month of the start date is later than the month of
\* the end date, filter_data returns (and does not raise) a frame of no rows.
C3_LaterMonthEmpty ==
    (pc = "create_line_chart" /\ MonthOf(start_date_stc) > MonthOf(end_date_stc))
        => filtered_df_stations_stc = <<>>

\* filter_data has returned no row for a start month after the end month,
\* though the joined view has a row of the selected line.
C3_Witness ==
    /\ pc = "create_line_chart"
    /\ MonthOf(start_date_stc) > MonthOf(end_date_stc)
    /\ filtered_df_stations_stc = <<>>
    /\ \E i \in 1..Len(df_month_estacion_stc) :
           df_month_estacion_stc[i].linea_clean = selected_linea_stc

\* C4: in the aggregate display_map_and_table shows, the station with the
\* most riders has size 1000.0, and every size is the float64
\* riders / most riders * 1000 and at most 1000.0.
C4_MaxGetsFullSize ==
    "write" \in rendered =>
        LET agg == stations_aggregate
            most == SeriesMax(Tuple([j \in 1..Len(agg) |-> agg[j].afluencia]))
        IN  \A j \in 1..Len(agg) :
                /\ agg[j].size # NaN
                /\ agg[j].afluencia = most
                       => agg[j].size = <<float_of_int(1000)>>
                /\ agg[j].size
                       = <<float_mul(float_truediv(agg[j].afluencia, most),
                                     1000)>>
                /\ FloatLeq(agg[j].size[1], float_of_int(1000))

\* C5: no row of the frame display_map_and_table hands to st.map (the frame
\* it has just shown with st.write) lacks a coordinate.
C5_NoNullOnMap ==
    "write" \in rendered =>
        \A j \in 1..Len(stations_aggregate) :
            ~HasNullCoordinate(stations_aggregate[j])

\* A loader has been invoked and has raised: on a file that cannot be read,
\* or, the geometry loader, on a file without a point placemark.
LoadFailed ==
    \/ reads.csv > 0 /\ ~csv_file.exists
    \/ reads.kml > 0 /\ ~kml_file.exists
    \/ reads.kml > 0 /\ load_and_process_kml_data_raises(kml_file.placemarks)

\* C8: no loader runs twice in a pass; once a loader has failed the pass has
\* ended with nothing but the title on the page; and the chart, the map and
\* the table are on the page only after both loaders have run and returned.
C8_LoadFailureAborts ==
    /\ reads.csv <= 1 /\ reads.kml <= 1
    /\ LoadFailed => pc = "raised" /\ rendered \subseteq {"title"}
    /\ rendered \cap {"line_chart", "write", "map", "table"} # {}
           => /\ reads = [csv |-> 1, kml |-> 1]
              /\ csv_file.exists /\ kml_file.exists
              /\ ~load_and_process_kml_data_raises(kml_file.placemarks)

\* The ridership file was loaded and the geometry file could not be read.
C8_Witness ==
    /\ pc = "raised"
    /\ csv_file.exists /\ csv_file.rows # <<>>
    /\ ~kml_file.exists
    /\ reads = [csv |-> 1, kml |-> 1]
    /\ df_stc # <<>>
    /\ rendered = {"title"}

\* C10: the joined view has one row per (month, line, station), and so the
\* frame given to create_line_chart has one row per (month, station).
C10_OneRowPerKey ==
    /\ \A i, j \in 1..Len(df_month_estacion_stc) :
           i < j => GroupKey(df_month_estacion_stc[i])
                        # GroupKey(df_month_estacion_stc[j])
    /\ ~pivot_raises(filtered_df_stations_stc)

(***************************************************************************)
(* A pass of main over the ridership rows of the end-to-end example        *)
(***************************************************************************)

\* The example's rows, the January ones on either of two days, under either
\* spelling of the line.
ExampleFiles ==
    { [exists |-> TRUE,
       rows |-> << [fecha |-> <<2024, 1, d[1]>>, estacion |-> Station_A,
                    linea |-> l, afluencia |-> 100],
                   [fecha |-> <<2024, 1, d[2]>>, estacion |-> Station_B,
                    linea |-> l, afluencia |-> 50],
                   [fecha |-> <<2024, 2, 10>>, estacion |-> Station_A,
                    linea |-> l, afluencia |-> 200] >>] :
      d \in [1..2 -> {5, 20}], l \in {Line_1, Linea_1_accent} }

InitExample ==
    /\ csv_file \in ExampleFiles
    /\ kml_file \in KmlFiles
    /\ pc = "load_and_preprocess_data"
    /\ PassStart
    /\ NoName

SpecExample == InitExample /\ [][Next]_vars

\* "2024-01"
ym_2024_01 ==
    << "2", "0", "2", "4", "-", "0", "1" >>

\* "2024-02"
ym_2024_02 ==
    << "2", "0", "2", "4", "-", "0", "2" >>

\* "station b"
station_b ==
    << "s", "t", "a", "t", "i", "o", "n", " ", "b" >>

\* C7: over the example's rows, with the example's line selected and the
\* dates in January and February 2024, the chart drawn has the series of
\* stations A and B and the Total series 150, 200, and the table drawn ranks
\* A with 300 before B with 50.
C7_EndToEnd ==
    (/\ start_date_stc # <<>>
     /\ MonthOf(start_date_stc) = MonthOf(<<2024, 1, 1>>)
     /\ MonthOf(end_date_stc) = MonthOf(<<2024, 2, 1>>))
    =>
    /\ "line_chart" \in rendered =>
           line_chart =
               [index   |-> <<ym_2024_01, ym_2024_02>>,
                columns |-> <<station_a, station_b, TotalColumn>>,
                data    |-> << << <<100>>, <<50>>, <<150>> >>,
                               << <<200>>, NaN, <<200>> >> >>]
    /\ "table" \in rendered =>
           station_afluencia_table =
               << [Estacion |-> station_a, Afluencia |-> <<"3", "0", "0">>],
                  [Estacion |-> station_b, Afluencia |-> <<"5", "0">>] >>

\* The pass is through, over the line whose geometry matches for A and for
\* B, with the chart and the table on the page.
C7_Witness ==
    /\ pc = "done"
    /\ MonthOf(start_date_stc) = MonthOf(<<2024, 1, 1>>)
    /\ MonthOf(end_date_stc) = MonthOf(<<2024, 2, 1>>)
    /\ selected_linea_stc = linea_1
    /\ {"line_chart", "map", "table"} \subseteq rendered
    /\ Len(stations_aggregate) = 2
    /\ \A j \in 1..Len(stations_aggregate) :
           ~HasNullCoordinate(stations_aggregate[j])
    /\ Len(station_afluencia_table) = 2
    /\ Len(line_chart.index) = 2

====
